---- MODULE Spec2Model ----
(***************************************************************************)
(* WebSocketClient (packages/client/src/clients/websocket.ts): a JSON-RPC  *)
(* client over one WebSocket at a time, with an outbound queue used while  *)
(* disconnected, a table of pending requests keyed by message id, and a    *)
(* dispatcher for inbound frames.                                          *)
(*                                                                         *)
(* JavaScript runs every handler to completion, so a handler is one        *)
(* action; the only handler that is split is onopen, whose drain loop is   *)
(* given a program counter (pc) so that "a drain is in progress" is a      *)
(* state.  While pc # "idle" nothing else runs.                            *)
(*                                                                         *)
(* The transport is the browser WebSocket: readyState goes                 *)
(* CONNECTING -> OPEN -> CLOSING -> CLOSED, close() moves a CONNECTING or  *)
(* OPEN socket to CLOSING at once and its close event is delivered later,  *)
(* open is delivered only to a CONNECTING socket, message only to an OPEN  *)
(* one, and send() throws InvalidStateError on a CONNECTING socket and     *)
(* discards the data on a CLOSING or CLOSED one.                           *)
(***************************************************************************)
EXTENDS Integers, Sequences, FiniteSets, TLC

(* ---------------- bounds ---------------- *)
MaxSessions == 2      \* calls of connect
MaxMsgs == 2          \* calls of notify and rpc together
MaxInbound == 2       \* inbound frames processed

(* ---------------- values ---------------- *)
\* `id?: number` left out of the object
NoId == -1

Sessions == 1..MaxSessions
Ids == 1..MaxMsgs

\* JavaScript undefined, where it is an event name or a payload
Undefined == "undefined"

\* msg.result: absent, a non-array value, or an array of strings
NoResult == [kind |-> "absent", elems |-> << >>]
Value(v) == [kind |-> "value", elems |-> <<v>>]
Array(es) == [kind |-> "array", elems |-> es]

\* msg.error: absent, or an RpcError with its message
NoError == [present |-> FALSE, message |-> ""]
RpcError(m) == [present |-> TRUE, message |-> m]

Results ==
  { NoResult, Value("pong"), Array(<<"priceUpdate", "p">>),
    Array(<<"open", "p">>), Array(<<"a", "b", "c">>) }

Errors == { NoError, RpcError("boom") }

\* the ids inbound frames carry: none, zero, and the first call's
InboundIds == {NoId, 0, 1}

\* the parsed inbound frames (RpcResponse): every result without an id, the
\* replies to call 1, a frame with id 0, an error with each id, and a reply
\* that carries an error and a pair
RpcResponse ==
  [ id : {NoId}, result : Results, error : {NoError} ] \cup
  [ id : {1}, error : {NoError},
    result : {NoResult, Value("pong"), Array(<<"priceUpdate", "p">>)} ] \cup
  [ id : {0}, result : {Value("pong")}, error : {NoError} ] \cup
  [ id : InboundIds, result : {NoResult}, error : Errors \ {NoError} ] \cup
  [ id : {1}, result : {Array(<<"priceUpdate", "p">>)},
    error : Errors \ {NoError} ]

\* no inbound frame
NoFrame == [id |-> NoId, result |-> NoResult, error |-> NoError, none |-> TRUE]
Frame(msg) == [id |-> msg.id, result |-> msg.result, error |-> msg.error,
               none |-> FALSE]

\* the Promise returned by rpc
Unissued == [st |-> "none", val |-> NoResult]
Pending == [st |-> "pending", val |-> NoResult]
Resolved(r) == [st |-> "resolved", val |-> r]
Rejected(m) == [st |-> "rejected", val |-> Value(m)]

NoSignal == [event |-> "", payload |-> ""]
Signal(e, p) == [event |-> e, payload |-> p]

NoThrow == ""

VARIABLES
  messageId,        \* this.messageId
  messageRequests,  \* keys of this.messageRequests
  websocket,        \* this.websocket: a session, 0 while undefined
  connected,        \* this.connected
  queue,            \* this.queue
  readyState,       \* readyState of every WebSocket created so far
  pc,               \* position in onopen: "idle", "while", "emit"
  promise,          \* state of the Promise returned by the rpc call with each id
  sent,             \* frames the transport accepted, in order, with their session
  signal,           \* what the last step passed to emit, NoSignal if nothing
  thrown,           \* what the last step threw, NoThrow if nothing
  submitted,        \* history: every notify/rpc call, its id, and connected at that call
  calls,            \* history: how often each id's resolve callback was invoked
  frame,            \* history: the inbound frame the last step processed, if any
  before,           \* history: the client's fields when that frame arrived
  inbound,          \* history: inbound frames processed
  snapshot          \* history: the queue when the last open event fired

vars == << messageId, messageRequests, websocket, connected, queue, readyState,
           pc, promise, sent, signal, thrown, submitted, calls, frame,
           before, inbound, snapshot >>

hist == << submitted, calls, inbound, snapshot >>

\* the client's fields as an inbound frame finds them
Fields ==
  [ requests |-> messageRequests, promise |-> promise, calls |-> calls,
    messageId |-> messageId, queue |-> queue, connected |-> connected ]

NoFields ==
  [ requests |-> {}, promise |-> [i \in Ids |-> Unissued],
    calls |-> [i \in Ids |-> 0], messageId |-> 0, queue |-> << >>,
    connected |-> FALSE ]

(* ---------------- constructor ---------------- *)
Init ==
  /\ messageId = 0
  /\ messageRequests = {}
  /\ websocket = 0
  /\ connected = FALSE
  /\ queue = << >>
  /\ readyState = [s \in Sessions |-> "NONE"]
  /\ pc = "idle"
  /\ promise = [i \in Ids |-> Unissued]
  /\ sent = << >>
  /\ signal = NoSignal
  /\ thrown = NoThrow
  /\ submitted = << >>
  /\ calls = [i \in Ids |-> 0]
  /\ frame = NoFrame
  /\ before = NoFields
  /\ inbound = 0
  /\ snapshot = << >>

(* ---------------- transport ---------------- *)
\* connect without `this.websocket.close()`
Close_Noop(rs, s) == rs

\* WebSocket.close()
Close(rs, s) ==
  IF rs[s] \in {"CONNECTING", "OPEN"} THEN [rs EXCEPT ![s] = "CLOSING"] ELSE rs

\* WebSocket.send(JSON.stringify(message)) on session s: the frames afterwards
Send(s, message) ==
  IF readyState[s] = "OPEN" THEN Append(sent, [sess |-> s, msg |-> message])
  ELSE sent

\* what WebSocket.send throws on session s
SendThrows(s) ==
  IF readyState[s] = "CONNECTING" THEN "InvalidStateError" ELSE NoThrow

(* ---------------- notify ---------------- *)
Stamp(message) == [message EXCEPT !.jsonrpc = "2.0"]

\* notify with `unshift` for `push`
NotifyQueue_Prepend(c, q, message) ==
  IF c = FALSE THEN <<Stamp(message)>> \o q ELSE q

\* notify without the test of `this.connected`
NotifyQueue_Always(c, q, message) == Append(q, Stamp(message))

\* the queue after notify(message), called with flag c and queue q
NotifyQueue(c, q, message) ==
  IF c = FALSE THEN Append(q, Stamp(message)) ELSE q

\* notify that sends whatever `this.connected` is
NotifySent_Always(c, message) ==
  IF websocket = 0 THEN sent ELSE Send(websocket, Stamp(message))

\* the transport's frames after notify(message), called with flag c
NotifySent(c, message) ==
  IF c = FALSE THEN sent ELSE Send(websocket, Stamp(message))

NotifyThrown(c) ==
  IF c = FALSE THEN NoThrow ELSE SendThrows(websocket)

notify(n) ==
  /\ pc = "idle"
  /\ Len(submitted) < MaxMsgs
  /\ LET message == [n |-> n, id |-> NoId, jsonrpc |-> ""] IN
       /\ queue' = NotifyQueue(connected, queue, message)
       /\ sent' = NotifySent(connected, message)
       /\ thrown' = NotifyThrown(connected)
  /\ signal' = NoSignal
  /\ submitted' = Append(submitted,
                         [n |-> n, disc |-> (connected = FALSE), id |-> NoId])
  /\ frame' = NoFrame
  /\ before' = NoFields
  /\ UNCHANGED << messageId, messageRequests, websocket, connected, readyState,
                  pc, promise, calls, inbound, snapshot >>

(* ---------------- rpc ---------------- *)
\* rpc that numbers the call by the size of the pending table
NextId_TableSize(mid) == Cardinality(messageRequests) + 1

\* this.messageId += 1
NextId(mid) == mid + 1

\* rpc without `this.messageRequests.set(id, ...)`
Register_Skip(requests, id) == requests

\* this.messageRequests.set(id, { resolve, reject })
Register(requests, id) == requests \cup {id}

rpc(n) ==
  /\ pc = "idle"
  /\ Len(submitted) < MaxMsgs
  /\ messageId' = NextId(messageId)
  /\ LET id == NextId(messageId)
         message == [n |-> n, id |-> id, jsonrpc |-> ""] IN
       /\ messageRequests' = Register(messageRequests, id)
       /\ submitted' = Append(submitted,
                              [n |-> n, disc |-> (connected = FALSE), id |-> id])
       /\ promise' = [promise EXCEPT ![id] = Pending]
       /\ queue' = NotifyQueue(connected, queue, message)
       /\ sent' = NotifySent(connected, message)
       /\ thrown' = NotifyThrown(connected)
  /\ signal' = NoSignal
  /\ frame' = NoFrame
  /\ before' = NoFields
  /\ UNCHANGED << websocket, connected, readyState, pc, calls, inbound,
                  snapshot >>

(* ---------------- connect ---------------- *)
connect ==
  /\ pc = "idle"
  /\ \E s \in Sessions :
       /\ readyState[s] = "NONE"
       /\ \A t \in Sessions : t < s => readyState[t] # "NONE"
       /\ readyState' =
            [ (IF websocket # 0 THEN Close(readyState, websocket) ELSE readyState)
                EXCEPT ![s] = "CONNECTING" ]
       /\ websocket' = s
  /\ signal' = NoSignal
  /\ thrown' = NoThrow
  /\ UNCHANGED << messageId, messageRequests, connected, queue, pc, promise,
                  sent, hist >>
  /\ frame' = NoFrame
  /\ before' = NoFields

(* ---------------- onopen ---------------- *)
\* onopen that leaves `this.connected = true` to the end of the handler
onopen_FlagAfterDrain(s) ==
  /\ pc = "idle"
  /\ readyState[s] = "CONNECTING"
  /\ readyState' = [readyState EXCEPT ![s] = "OPEN"]
  /\ pc' = "while"
  /\ snapshot' = queue
  /\ signal' = NoSignal
  /\ thrown' = NoThrow
  /\ frame' = NoFrame
  /\ before' = NoFields
  /\ UNCHANGED << messageId, messageRequests, websocket, connected, queue,
                  promise, sent, submitted, calls, inbound >>

onopen(s) ==
  /\ pc = "idle"
  /\ readyState[s] = "CONNECTING"
  /\ readyState' = [readyState EXCEPT ![s] = "OPEN"]
  /\ connected' = TRUE
  /\ pc' = "while"
  /\ snapshot' = queue
  /\ signal' = NoSignal
  /\ thrown' = NoThrow
  /\ frame' = NoFrame
  /\ before' = NoFields
  /\ UNCHANGED << messageId, messageRequests, websocket, queue, promise, sent,
                  submitted, calls, inbound >>

\* one iteration of the loop: shift, then notify
DrainStep ==
  /\ pc = "while"
  /\ Len(queue) > 0
  /\ LET message == Head(queue) IN
       /\ queue' = NotifyQueue(connected, Tail(queue), message)
       /\ sent' = NotifySent(connected, message)
       /\ thrown' = NotifyThrown(connected)
       /\ pc' = IF NotifyThrown(connected) = NoThrow THEN "while" ELSE "idle"
  /\ signal' = NoSignal
  /\ UNCHANGED << messageId, messageRequests, websocket, connected, readyState,
                  promise, hist >>
  /\ frame' = NoFrame
  /\ before' = NoFields

DrainExit ==
  /\ pc = "while"
  /\ Len(queue) = 0
  /\ pc' = "emit"
  /\ UNCHANGED << messageId, messageRequests, websocket, connected, queue,
                  readyState, promise, sent, signal, thrown, hist >>
  /\ frame' = NoFrame
  /\ before' = NoFields

EmitOpen ==
  /\ pc = "emit"
  /\ signal' = Signal("open", Undefined)
  /\ pc' = "idle"
  /\ thrown' = NoThrow
  /\ UNCHANGED << messageId, messageRequests, websocket, connected, queue,
                  readyState, promise, sent, hist >>
  /\ frame' = NoFrame
  /\ before' = NoFields

(* ---------------- onclose ---------------- *)
\* onclose that also forgets the pending requests
onclose_ClearsPending(s) ==
  /\ pc = "idle"
  /\ readyState[s] \in {"CONNECTING", "OPEN", "CLOSING"}
  /\ readyState' = [readyState EXCEPT ![s] = "CLOSED"]
  /\ connected' = FALSE
  /\ messageRequests' = {}
  /\ signal' = Signal("close", Undefined)
  /\ thrown' = NoThrow
  /\ UNCHANGED << messageId, websocket, queue, pc, promise, sent, hist >>
  /\ frame' = NoFrame
  /\ before' = NoFields

onclose(s) ==
  /\ pc = "idle"
  /\ readyState[s] \in {"CONNECTING", "OPEN", "CLOSING"}
  /\ readyState' = [readyState EXCEPT ![s] = "CLOSED"]
  /\ connected' = FALSE
  /\ signal' = Signal("close", Undefined)
  /\ thrown' = NoThrow
  /\ UNCHANGED << messageId, messageRequests, websocket, queue, pc, promise,
                  sent, hist >>
  /\ frame' = NoFrame
  /\ before' = NoFields

(* ---------------- onmessage ---------------- *)
\* JavaScript truthiness of msg.result
Truthy(result) ==
  \/ result.kind = "array"
  \/ result.kind = "value" /\ result.elems[1] # ""

IsArray(result) == result.kind = "array"

\* `const [payload, event] = msg.result`
Elem_Swapped(result, i) ==
  IF Len(result.elems) >= 3 - i THEN result.elems[3 - i] ELSE Undefined

\* const [event, payload] = msg.result
Elem(result, i) ==
  IF Len(result.elems) >= i THEN result.elems[i] ELSE Undefined

\* resolve with `_resolve()` for `_resolve(response.result)`
resolve_NoResult(p, response) ==
  IF p.st # "pending" THEN p
  ELSE IF response.error.present THEN Rejected(response.error.message)
  ELSE Resolved(NoResult)

\* resolve without the test of `response.error`
resolve_IgnoreError(p, response) ==
  IF p.st # "pending" THEN p ELSE Resolved(response.result)

\* the resolve callback rpc stores: settles the call's Promise, which
\* keeps its first settlement
resolve(p, response) ==
  IF p.st # "pending" THEN p
  ELSE IF response.error.present THEN Rejected(response.error.message)
  ELSE Resolved(response.result)

\* onmessage without `this.messageRequests.delete(msg.id)`
Remaining_Keep(requests, id) == requests

\* this.messageRequests.delete(msg.id)
Remaining(requests, id) == requests \ {id}

\* msg.id > 0 && this.messageRequests.has(msg.id)
Matches(msg) == msg.id > 0 /\ msg.id \in messageRequests

\* onmessage without the `throw`
Fatal_Swallowed(matched, msg) == NoThrow

\* what onmessage throws: `else if (msg.error) throw new Error(...)`
Fatal(matched, msg) ==
  IF ~matched /\ msg.error.present THEN msg.error.message ELSE NoThrow

\* onmessage with `if (msg.result)` for the last `else if (msg.result)`
Emitted_NoElse(matched, msg) ==
  IF Truthy(msg.result) /\ IsArray(msg.result)
    THEN Signal(Elem(msg.result, 1), Elem(msg.result, 2))
    ELSE NoSignal

\* what onmessage passes to emit: only the last branch of the chain emits
Emitted(matched, msg) ==
  IF matched \/ msg.error.present THEN NoSignal
  ELSE IF Truthy(msg.result) /\ IsArray(msg.result)
    THEN Signal(Elem(msg.result, 1), Elem(msg.result, 2))
  ELSE NoSignal

onmessage(s, msg) ==
  /\ pc = "idle"
  /\ readyState[s] = "OPEN"
  /\ inbound < MaxInbound
  /\ inbound' = inbound + 1
  /\ frame' = Frame(msg)
  /\ before' = Fields
  /\ IF Matches(msg)
       THEN /\ promise' = [promise EXCEPT ![msg.id] = resolve(@, msg)]
            /\ calls' = [calls EXCEPT ![msg.id] = @ + 1]
            /\ messageRequests' = Remaining(messageRequests, msg.id)
       ELSE UNCHANGED << promise, calls, messageRequests >>
  /\ thrown' = Fatal(Matches(msg), msg)
  /\ signal' = Emitted(Matches(msg), msg)
  /\ UNCHANGED << messageId, websocket, connected, queue, readyState, pc, sent,
                  submitted, snapshot >>

(* ---------------- specification ---------------- *)
Next ==
  \/ connect
  \/ \E s \in Sessions : onopen(s)
  \/ DrainStep
  \/ DrainExit
  \/ EmitOpen
  \/ \E s \in Sessions : onclose(s)
  \/ \E s \in Sessions, msg \in RpcResponse : onmessage(s, msg)
  \/ \E n \in 1..MaxMsgs : n = Len(submitted) + 1 /\ notify(n)
  \/ \E n \in 1..MaxMsgs : n = Len(submitted) + 1 /\ rpc(n)

Spec == Init /\ [][Next]_vars

\* a handler that has started runs to its end: the steps of onopen are taken
Fairness ==
  /\ WF_vars(DrainStep)
  /\ WF_vars(DrainExit)
  /\ WF_vars(EmitOpen)

\* the client's calls and the transport's open and close events: the steps
\* that read or write the queue, the flag and the sockets (onmessage writes
\* none of them, and no frame is processed while a handler runs)
NextTransport ==
  \/ connect
  \/ \E s \in Sessions : onopen(s)
  \/ DrainStep
  \/ DrainExit
  \/ EmitOpen
  \/ \E s \in Sessions : onclose(s)
  \/ \E n \in 1..MaxMsgs : n = Len(submitted) + 1 /\ notify(n)
  \/ \E n \in 1..MaxMsgs : n = Len(submitted) + 1 /\ rpc(n)

FairSpec == Init /\ [][NextTransport]_vars /\ Fairness

(* ---------------- helpers of the properties ---------------- *)
\* the submission numbers of the frames session s accepted, in order
SentOn(s) ==
  LET on == SelectSeq(sent, LAMBDA e : e.sess = s)
  IN [i \in 1..Len(on) |-> on[i].msg.n]

\* the submission numbers of the frames sessions other than s accepted
SentElsewhere(s) ==
  { sent[i].msg.n : i \in { j \in 1..Len(sent) : sent[j].sess # s } }

\* the calls made while connected was false that no session but s has sent
QueuedFor(s) ==
  LET due == SelectSeq(submitted,
                       LAMBDA e : e.disc /\ e.n \notin SentElsewhere(s))
  IN [i \in 1..Len(due) |-> due[i].n]

\* the last step processed an inbound frame, and how it was classified
Arrived == frame.none = FALSE
Matched == Arrived /\ frame.id > 0 /\ frame.id \in before.requests
IsPair(result) == result.kind = "array" /\ Len(result.elems) = 2

(* ---------------- C1 ---------------- *)
\* C1: when the drain of an open event has finished, the session that opened
\* has been handed exactly the calls made while connected was false, in the
\* order of the calls; and on every session a message submitted while
\* connected never precedes one that had been queued.
C1_QueuedSentInOrderFirst ==
  /\ pc = "emit" => SentOn(websocket) = QueuedFor(websocket)
  /\ \A s \in Sessions :
       LET on == SentOn(s) IN
         \A i, j \in 1..Len(on) :
           (i < j /\ submitted[on[j]].disc) => submitted[on[i]].disc

C1_Witness ==
  /\ pc = "emit"
  /\ Len(SentOn(websocket)) >= 2
  /\ Len(snapshot) >= 2

(* ---------------- C2 ---------------- *)
\* C2: the completion of an rpc call is invoked at most once, its entry is
\* gone once it has been invoked, and an inbound frame whose id is not in the
\* pending table invokes no completion and changes no entry.
C2_CompletedAtMostOnce ==
  /\ \A i \in Ids : calls[i] <= 1 /\ (calls[i] = 1 => i \notin messageRequests)
  /\ (Arrived /\ ~Matched) =>
       /\ calls = before.calls
       /\ promise = before.promise
       /\ messageRequests = before.requests

C2_Witness ==
  /\ Arrived
  /\ ~Matched
  /\ frame.id = 1
  /\ calls[1] = 1
  /\ promise[1].st = "resolved"

(* ---------------- C3 ---------------- *)
\* C3: an inbound frame without error whose id is a pending call's resolves
\* that call's handle, which was pending, with the frame's result, by the
\* one invocation of its completion, and settles no other handle.
C3_ResolvesWithResult ==
  (Matched /\ ~frame.error.present) =>
    /\ before.promise[frame.id].st = "pending"
    /\ promise[frame.id] = Resolved(frame.result)
    /\ calls[frame.id] = 1
    /\ \A j \in Ids \ {frame.id} : promise[j] = before.promise[j]

C3_Witness ==
  /\ Matched
  /\ ~frame.error.present
  /\ frame.result = Value("pong")
  /\ promise[1] = Resolved(Value("pong"))

(* ---------------- C4 ---------------- *)
\* C4: an inbound frame with an error whose id is a pending call's rejects
\* that call's handle with the frame's error message; every other entry
\* stays in the table and every other handle is as it was.
C4_RejectsOnlyThatCall ==
  (Matched /\ frame.error.present) =>
    /\ promise[frame.id] = Rejected(frame.error.message)
    /\ messageRequests = before.requests \ {frame.id}
    /\ \A j \in Ids \ {frame.id} : promise[j] = before.promise[j]

C4_Witness ==
  /\ Matched
  /\ frame.error.present
  /\ promise[1] = Rejected("boom")
  /\ 2 \in messageRequests
  /\ promise[2].st = "pending"

(* ---------------- C5 ---------------- *)
\* C5: an inbound frame with no id and no error whose result is a pair
\* (eventName, payload) raises the signal eventName with payload and leaves
\* the pending table, the handles, the counter, the queue and the
\* connection flag as they were.
C5_BroadcastRaisesSignalOnly ==
  (Arrived /\ frame.id = NoId /\ ~frame.error.present /\ IsPair(frame.result)) =>
    /\ signal = Signal(frame.result.elems[1], frame.result.elems[2])
    /\ thrown = NoThrow
    /\ messageRequests = before.requests
    /\ promise = before.promise
    /\ calls = before.calls
    /\ messageId = before.messageId
    /\ queue = before.queue
    /\ connected = before.connected

C5_Witness ==
  /\ Arrived
  /\ frame.id = NoId
  /\ ~frame.error.present
  /\ frame.result = Array(<<"priceUpdate", "p">>)
  /\ signal = Signal("priceUpdate", "p")
  /\ messageRequests # {}

(* ---------------- C6 ---------------- *)
\* C6: an inbound frame without a matching id and without an error whose
\* result is present but is not a two-element pair raises no signal and
\* surfaces no error.
C6_MalformedResultIgnored ==
  ( /\ Arrived
    /\ ~Matched
    /\ ~frame.error.present
    /\ frame.result.kind # "absent"
    /\ ~IsPair(frame.result) ) =>
    /\ signal = NoSignal
    /\ thrown = NoThrow

(* ---------------- C7 ---------------- *)
\* C7: a session that connect has replaced is closing or closed, never open;
\* and when the drain of an open event has finished, every message that was
\* in the queue at that event has been sent once on the session that opened
\* and on no other session.
C7_ReplacedSessionClosed ==
  /\ \A s \in Sessions :
       (s # websocket /\ readyState[s] # "NONE") =>
         readyState[s] \in {"CLOSING", "CLOSED"}
  /\ pc = "emit" =>
       \A k \in 1..Len(snapshot) :
         /\ Cardinality({ i \in 1..Len(sent) : sent[i].msg = snapshot[k] }) = 1
         /\ \A i \in 1..Len(sent) :
              sent[i].msg = snapshot[k] => sent[i].sess = websocket

C7_Witness ==
  /\ pc = "emit"
  /\ websocket = 2
  /\ Len(snapshot) >= 1
  /\ Len(SentOn(1)) >= 1
  /\ readyState[1] \in {"CLOSING", "CLOSED"}

(* ---------------- C8 ---------------- *)
\* C8: while the session the last connect created has not signalled open,
\* connected is false.
C8_ConnectResetsConnected ==
  (websocket # 0 /\ readyState[websocket] = "CONNECTING") => connected = FALSE

(* ---------------- C9 ---------------- *)
\* C9: a message submitted while connected was false is in the queue or has
\* been sent, never both and never twice, and none is still queued while the
\* current session is open and no drain is running.
C9_QueuedSentExactlyOnce ==
  /\ \A k \in 1..Len(submitted) :
       submitted[k].disc =>
         Cardinality({ i \in 1..Len(sent) : sent[i].msg.n = k }) +
         Cardinality({ i \in 1..Len(queue) : queue[i].n = k }) = 1
  /\ ( /\ pc = "idle"
       /\ websocket # 0
       /\ readyState[websocket] = "OPEN" ) => queue = << >>

(* ---------------- C10 ---------------- *)
\* C10: while connected is true and the drain loop is not running the queue
\* is empty, and every entry of the queue was appended by a call made while
\* connected was false.
C10_QueueEmptyWhileConnected ==
  /\ (connected /\ pc # "while") => queue = << >>
  /\ \A i \in 1..Len(queue) : submitted[queue[i].n].disc

C10_Witness ==
  /\ connected
  /\ pc = "idle"
  /\ queue = << >>
  /\ Len(snapshot) >= 1
  /\ \E i \in 1..Len(submitted) : ~submitted[i].disc

(* ---------------- C11 ---------------- *)
\* the ids of the rpc calls made so far, in the order of the calls
IssuedIds ==
  LET calls_ == SelectSeq(submitted, LAMBDA e : e.id # NoId)
  IN [i \in 1..Len(calls_) |-> calls_[i].id]

\* C11: every rpc call is given a positive id greater than the id of every
\* earlier rpc call, so no id is given twice, whatever was resolved, rejected,
\* connected or closed in between.
C11_IdsStrictlyIncrease ==
  /\ \A i \in 1..Len(IssuedIds) : IssuedIds[i] > 0
  /\ \A i, j \in 1..Len(IssuedIds) : i < j => IssuedIds[i] < IssuedIds[j]

C11_Witness ==
  /\ Len(IssuedIds) >= 2
  /\ calls[IssuedIds[1]] = 1
  /\ readyState[2] # "NONE"
  /\ \E s \in Sessions : readyState[s] = "CLOSED"

(* ---------------- C12 ---------------- *)
\* C12: an inbound frame with an error whose id is absent, zero or not in
\* the pending table throws the error's message out of the handler; no
\* handle is settled, no entry removed, no signal raised, and the queue, the
\* counter and the connection flag are as they were.
C12_UnmatchedErrorIsFatal ==
  (Arrived /\ ~Matched /\ frame.error.present) =>
    /\ thrown = frame.error.message
    /\ signal = NoSignal
    /\ promise = before.promise
    /\ calls = before.calls
    /\ messageRequests = before.requests
    /\ queue = before.queue
    /\ messageId = before.messageId
    /\ connected = before.connected

C12_Witness ==
  /\ Arrived
  /\ frame.error.present
  /\ frame.id = 0
  /\ thrown = "boom"
  /\ messageRequests # {}
  /\ \E i \in Ids : promise[i].st = "pending"

(* ---------------- C13 ---------------- *)
\* the ids of the rpc messages a session has accepted or the queue holds
HandedIds ==
  { sent[i].msg.id : i \in 1..Len(sent) } \cup
  { queue[i].id : i \in 1..Len(queue) }

\* C13: while an rpc message with id N has been transmitted or is queued and
\* no reply has completed call N, the pending table has an entry for N.
C13_RegisteredBeforeSend ==
  \A id \in HandedIds \ {NoId} : calls[id] = 0 => id \in messageRequests

C13_Witness ==
  /\ \E i \in 1..Len(sent) : sent[i].msg.id = 1
  /\ \E i \in 1..Len(queue) : queue[i].id = 2
  /\ calls[1] = 0
  /\ {1, 2} \subseteq messageRequests

(* ---------------- C14 ---------------- *)
\* a step in which a socket's close event is handled, or connect is called
ClosedOrConnected ==
  \/ \E s \in Sessions : readyState[s] # "CLOSED" /\ readyState'[s] = "CLOSED"
  \/ websocket' # websocket

C14_Step ==
  /\ ClosedOrConnected =>
       /\ messageRequests' = messageRequests
       /\ promise' = promise
       /\ messageId' = messageId
  /\ \A i \in messageRequests \ messageRequests' :
       frame'.none = FALSE /\ frame'.id = i

\* C14: a close event and a call of connect leave the pending table, the
\* handles and the counter as they are, and an entry leaves the table only
\* in a step that processes an inbound frame with its id.
C14_OnlyRepliesRemoveEntries == [][C14_Step]_vars

C14_Witness ==
  /\ websocket = 2
  /\ readyState[1] = "CLOSED"
  /\ \E i \in 1..Len(sent) : sent[i].sess = 1 /\ sent[i].msg.id = 1
  /\ 1 \in messageRequests
  /\ promise[1].st = "pending"
  /\ messageId = 1

(* ---------------- C15 ---------------- *)
\* the calls made while connected was false that no session has been handed
Waiting ==
  SelectSeq(submitted,
            LAMBDA e : e.disc /\ \A i \in 1..Len(sent) : sent[i].msg.n # e.n)

\* C15: the queue holds exactly the notify and rpc calls made while connected
\* was false that have not been sent, in the order of the calls, every rpc
\* message with its id and the version tag; when the drain of an open event
\* has finished they have been sent in that order with those ids; and a
\* reply with the id of such a call settles its handle.
C15_RpcQueuedLikeNotify ==
  /\ pc # "while" =>
       /\ Len(queue) = Len(Waiting)
       /\ \A i \in 1..Len(queue) :
            queue[i] = [n |-> Waiting[i].n, id |-> Waiting[i].id,
                        jsonrpc |-> "2.0"]
  /\ pc = "emit" =>
       /\ SentOn(websocket) = QueuedFor(websocket)
       /\ \A i \in 1..Len(sent) : sent[i].msg.id = submitted[sent[i].msg.n].id
  /\ Matched => promise[frame.id].st \in {"resolved", "rejected"}

C15_Witness ==
  /\ Matched
  /\ promise[frame.id].st = "resolved"
  /\ Len(submitted) = 2
  /\ submitted[1].disc /\ submitted[1].id = NoId
  /\ submitted[2].disc /\ submitted[2].id = frame.id
  /\ SentOn(websocket) = <<1, 2>>

(* ---------------- C16 ---------------- *)
\* C16: an inbound frame whose positive id is in the pending table invokes
\* that entry's completion and removes the entry, and raises no signal and
\* throws nothing, also when it carries an error or a pair as result; a
\* frame with id 0 or without id completes no entry.
C16_MatchIsTerminal ==
  /\ Matched =>
       /\ signal = NoSignal
       /\ thrown = NoThrow
       /\ calls = [before.calls EXCEPT ![frame.id] = @ + 1]
       /\ messageRequests = before.requests \ {frame.id}
  /\ (Arrived /\ frame.id <= 0) =>
       /\ calls = before.calls
       /\ promise = before.promise
       /\ messageRequests = before.requests

C16_Witness ==
  /\ Matched
  /\ frame.error.present
  /\ IsPair(frame.result)
  /\ signal = NoSignal
  /\ thrown = NoThrow
  /\ promise[frame.id] = Rejected("boom")

(* ---------------- C17 ---------------- *)
\* C17: connected is true exactly when the session of the last connect is
\* open, and no message is handed to a session that is not open.
C17_ConnectedIffCurrentOpen ==
  /\ connected <=> (websocket # 0 /\ readyState[websocket] = "OPEN")
  /\ thrown # "InvalidStateError"

(* ---------------- C18 ---------------- *)
\* C18: no step that processes an inbound frame raises the signal 'open' or
\* the signal 'close'.
C18_LifecycleSignalsFromTransportOnly ==
  Arrived => signal.event \notin {"open", "close"}

(* ---------------- C19 ---------------- *)
\* while the open handler runs nothing has been emitted, and what is left in
\* the queue and what the opened session has been handed make up the queue
\* of the open event
DrainProgress ==
  pc \in {"while", "emit"} =>
    /\ signal = NoSignal
    /\ connected
    /\ Len(queue) + Len(SentOn(websocket)) = Len(snapshot)
    /\ pc = "emit" => queue = << >>

\* C19: the drain loop of the open handler ends: every iteration takes one
\* entry from the queue and sends it without appending it again, the loop
\* is left with the queue empty after as many sends as entries were queued,
\* and only then is 'open' raised.
C19_DrainTerminates ==
  /\ []DrainProgress
  /\ (pc = "while") ~> (pc = "emit")
  /\ (pc = "emit") ~> (pc = "idle" /\ signal = Signal("open", Undefined))

C19_Witness ==
  /\ pc = "idle"
  /\ signal = Signal("open", Undefined)
  /\ frame.none
  /\ Len(snapshot) = 2
  /\ Len(SentOn(websocket)) = 2
  /\ queue = << >>

====
